---- MODULE Spec2Model ----
(***************************************************************************)
(* noir-runner: the generic value converter (src/src/abi.rs) and the       *)
(* execution orchestrator NoirRunner (src/src/runner.rs).                  *)
(*                                                                         *)
(* Integers are modelled at a reduced width: the machine integers of the   *)
(* code (u8, i64, u64, i128) keep their relative sizes, scaled from 64     *)
(* bits down to Bits bits, and the BN254 scalar field is replaced by a     *)
(* prime field that, like the real one, is larger than every i128 the      *)
(* converter can produce.  Strings are sequences of byte codes, so that    *)
(* the byte-wise ordering of Rust's String is computable.                  *)
(***************************************************************************)
EXTENDS Integers, Sequences, FiniteSets, TLC

\* ------------------------------------------------------------------ bounds
Bits == 3            \* width standing for the 64 bits of i64 / u64
MaxLen == 3          \* longest array / object the converter is given
NumContexts == 2     \* execution contexts calling run on one orchestrator

\* --------------------------------------------------------- machine integers
I64Min == -(2 ^ (Bits - 1))
I64Max == 2 ^ (Bits - 1) - 1
U64Max == 2 ^ Bits - 1
U8Max == 2 ^ (Bits - 1) - 1

\* order of the scalar field behind acvm::FieldElement (scaled stand-in)
FieldOrder == 65537

\* --------------------------------------------------- serde_json::Number
\* N::PosInt(u64) | N::NegInt(i64, always negative) | N::Float(f64).
\* A float is kept in halves: v stands for v / 2.
PosInt(u) == [k |-> "PosInt", v |-> u]
NegInt(i) == [k |-> "NegInt", v |-> i]
Float(h) == [k |-> "Float", v |-> h]

\* serde_json's From<i64> / Serializer::serialize_i64 for Number
NumberFromI64(i) == IF i < 0 THEN NegInt(i) ELSE PosInt(i)
\* serde_json's From<u64> / Serializer::serialize_u64 for Number
NumberFromU64(u) == PosInt(u)

is_i64(n) ==
    CASE n.k = "PosInt" -> n.v <= I64Max
      [] n.k = "NegInt" -> TRUE
      [] n.k = "Float" -> FALSE

is_u64(n) ==
    CASE n.k = "PosInt" -> TRUE
      [] n.k = "NegInt" -> FALSE
      [] n.k = "Float" -> FALSE

as_i64(n) == n.v
as_u64(n) == n.v
as_f64(n) == n.v

\* `f as u64`: truncation toward zero, saturating at both ends
F64AsU64(h) ==
    IF h < 0 THEN 0
    ELSE IF h \div 2 > U64Max THEN U64Max
    ELSE h \div 2

\* --------------------------------------------------------- FieldElement
FieldNeg(a) == IF a = 0 THEN 0 ELSE FieldOrder - a
FieldAdd(a, b) == (a + b) % FieldOrder

\* an embedding that drops the sign
FieldFromI128Magnitude(a) == IF a < 0 THEN (-a) % FieldOrder ELSE a % FieldOrder

\* FieldElement::from(i128): embed the magnitude, negate in the field
FieldFromI128(a) == IF a < 0 THEN FieldNeg((-a) % FieldOrder) ELSE a % FieldOrder
\* FieldElement::from(u64), ::from(u32), ::from(bool)
FieldFromU64(u) == u % FieldOrder
FieldFromBool(b) == IF b THEN 1 ELSE 0

\* ------------------------------------------------- noirc_abi InputValue
IvField(f) == [iv |-> "Field", f |-> f]
IvVec(s) == [iv |-> "Vec", vec |-> s]
IvString(s) == [iv |-> "String", str |-> s]
IvStruct(m) == [iv |-> "Struct", map |-> m]

\* ------------------------------------------------- serde_json::Value
JNull == [t |-> "Null"]
JBool(b) == [t |-> "Bool", b |-> b]
JNumber(n) == [t |-> "Number", n |-> n]
JString(s) == [t |-> "String", s |-> s]
JArray(a) == [t |-> "Array", a |-> a]
JObject(o) == [t |-> "Object", o |-> o]

\* ------------------------------------ String ordering and BTreeMap
\* Ord for String: byte-wise lexicographic
StrLess(a, b) ==
    \E i \in 1..Len(b) :
        /\ \A j \in 1..(i - 1) : j <= Len(a) /\ a[j] = b[j]
        /\ (i > Len(a) \/ a[i] < b[i])

\* A BTreeMap<String, _> is the sequence of its entries in key order.
BTreeEntry(k, v) == [key |-> k, val |-> v]

\* an insertion that keeps arrival order instead of key order
BTreeInsertUnsorted(m, k, v) ==
    SelectSeq(m, LAMBDA e : e.key # k) \o <<BTreeEntry(k, v)>>

\* BTreeMap::insert: the entry lands at its key's place, replacing an equal key
BTreeInsert(m, k, v) ==
    LET before == SelectSeq(m, LAMBDA e : StrLess(e.key, k))
        after == SelectSeq(m, LAMBDA e : StrLess(k, e.key))
    IN  before \o <<BTreeEntry(k, v)>> \o after

RECURSIVE BTreeCollect(_)
\* FromIterator for BTreeMap: the entries inserted in iteration order
BTreeCollect(entries) ==
    IF entries = <<>> THEN <<>>
    ELSE LET n == Len(entries)
         IN  BTreeInsert(BTreeCollect(SubSeq(entries, 1, n - 1)),
                         entries[n].key, entries[n].val)

BTreeKeys(m) == {m[i].key : i \in 1..Len(m)}
BTreeContains(m, k) == \E i \in 1..Len(m) : m[i].key = k
BTreeGet(m, k) == (CHOOSE e \in {m[i] : i \in 1..Len(m)} : e.key = k).val

\* --------------------------------------------------------- ToNoir
\* a collect that yields the mapped elements back to front
CollectVecReversed(mapped) == [i \in 1..Len(mapped) |-> mapped[Len(mapped) + 1 - i]]

\* .collect::<Vec<_>>() of the mapped elements, in iteration order
CollectVec(mapped) == [i \in 1..Len(mapped) |-> mapped[i]]

\* a number branch that casts the signed value to u64 before embedding
NumberToFieldWrapping(n) ==
    IF is_i64(n) THEN FieldFromU64(as_i64(n) % (U64Max + 1))
    ELSE IF is_u64(n) THEN FieldFromU64(as_u64(n))
    ELSE FieldFromU64(F64AsU64(as_f64(n)))

\* the Value::Number arm of to_noir
NumberToField(n) ==
    IF is_i64(n) THEN FieldFromI128(as_i64(n))
    ELSE IF is_u64(n) THEN FieldFromU64(as_u64(n))
    ELSE FieldFromU64(F64AsU64(as_f64(n)))

RECURSIVE to_noir(_)
to_noir(value) ==
    CASE value.t = "Null" -> IvField(FieldFromU64(0))
      [] value.t = "Bool" -> IvField(FieldFromBool(value.b))
      [] value.t = "Number" -> IvField(NumberToField(value.n))
      [] value.t = "Array" ->
            IvVec(CollectVec([i \in 1..Len(value.a) |-> to_noir(value.a[i])]))
      [] value.t = "String" -> IvString(value.s)
      [] value.t = "Object" ->
            IvStruct(BTreeCollect(
                [i \in 1..Len(value.o) |->
                    BTreeEntry(value.o[i].key, to_noir(value.o[i].val))]))

\* ------------------------------------------- host values and projection
\* The value handed to to_noir is any T: Serialize.  A host value carries
\* its Rust type; ToValue is serde_json::to_value on it.
HUnit == [ty |-> "unit"]
HBool(b) == [ty |-> "bool", b |-> b]
HI64(x) == [ty |-> "i64", x |-> x]
HU64(x) == [ty |-> "u64", x |-> x]
HU8(x) == [ty |-> "u8", x |-> x]
HI128(x) == [ty |-> "i128", x |-> x]
HF64(h) == [ty |-> "f64", h |-> h]
HString(s) == [ty |-> "string", s |-> s]
HSeq(items) == [ty |-> "seq", items |-> items]
HStruct(fields) == [ty |-> "struct", fields |-> fields]

RECURSIVE ToValue(_)
ToValue(h) ==
    CASE h.ty = "unit" -> JNull
      [] h.ty = "bool" -> JBool(h.b)
      [] h.ty = "i64" -> JNumber(NumberFromI64(h.x))
      [] h.ty = "u64" -> JNumber(NumberFromU64(h.x))
      [] h.ty = "u8" -> JNumber(NumberFromU64(h.x))
      [] h.ty = "i128" ->
            \* serialize_i128: u64 range first, then i64 range (values beyond
            \* both make to_value fail; the inputs here stay inside)
            IF h.x >= 0 THEN JNumber(NumberFromU64(h.x))
            ELSE JNumber(NumberFromI64(h.x))
      [] h.ty = "f64" -> JNumber(Float(h.h))
      [] h.ty = "string" -> JString(h.s)
      [] h.ty = "seq" -> JArray([i \in 1..Len(h.items) |-> ToValue(h.items[i])])
      [] h.ty = "struct" ->
            JObject([i \in 1..Len(h.fields) |->
                        BTreeEntry(h.fields[i].key, ToValue(h.fields[i].val))])

\* T::to_noir(self): project, then map the generic tree
HostToNoir(h) == to_noir(ToValue(h))

\* ------------------------------------------------ inputs of the converter
SeqsUpTo(S, n) == UNION {[1..k -> S] : k \in 0..n}

Strings == {<<>>, <<1>>, <<2>>, <<1, 2>>, <<2, 1>>}
FieldNames == {<<1>>, <<2>>, <<1, 2>>, <<2, 1>>}

\* halves from -1.5 up to past u64::MAX
Halves == (-3)..(2 * U64Max + 5)

HostScalars ==
    {HUnit} \cup {HBool(b) : b \in BOOLEAN}
    \cup {HI64(x) : x \in I64Min..I64Max}
    \cup {HU64(x) : x \in 0..U64Max}
    \cup {HU8(x) : x \in 0..U8Max}
    \cup {HF64(h) : h \in Halves}
    \cup {HString(s) : s \in Strings}

HostElems ==
    {HUnit, HBool(TRUE), HI64(-1), HU64(U64Max), HF64(3), HString(<<2, 1>>)}

HostBytes == {HU8(x) : x \in 0..U8Max}

HostSeqs ==
    {HSeq(s) : s \in SeqsUpTo(HostElems, MaxLen) \cup SeqsUpTo(HostBytes, MaxLen)}

HostFieldVals ==
    {HI64(-1), HString(<<1>>), HSeq(<<HU8(1), HU8(0)>>),
     HStruct(<<BTreeEntry(<<2>>, HUnit), BTreeEntry(<<1>>, HBool(TRUE))>>)}

UniqueKeys(fields) ==
    \A i, j \in 1..Len(fields) : fields[i].key = fields[j].key => i = j

HostStructs ==
    {HStruct(f) :
        f \in {g \in SeqsUpTo([key : FieldNames, val : HostFieldVals], MaxLen) :
                 UniqueKeys(g)}}

HostNested == {HSeq(<<a, b>>) : a, b \in {HSeq(<<HU8(1)>>), HSeq(<<>>), HI64(0)}}

HostValues == HostScalars \cup HostSeqs \cup HostStructs \cup HostNested

\* ------------------------------------------------- Option and Result
None == <<>>
Some(v) == <<v>>

NoOutcome == [r |-> "none"]
Ok(v) == [r |-> "Ok", output |-> v]
Err(kind, detail) == [r |-> "Err", kind |-> kind, detail |-> detail]
\* `.unwrap()` on an Err: the call does not return, it unwinds
Panic(detail) == [r |-> "Panic", detail |-> detail]

\* ------------------------------------------------------ the file system
\* Directories are sequences of components.  Two packages with a manifest
\* and one directory without.
ProgramDirs == {<<"tests">>, <<"demo">>}
AllDirs == ProgramDirs \cup {<<"empty">>}

HasManifest(dir) == dir \in ProgramDirs

\* Workspace::export_directory_path
ExportDirectoryPath(dir) == dir \o <<"export">>

\* NoirRunner::try_new
TryNew(program_dir) ==
    IF ~HasManifest(program_dir) THEN Err("NargoManifest", "ManifestNotFound")
    ELSE Ok([program_dir |-> program_dir,
             export_directory |-> ExportDirectoryPath(program_dir)])

X == <<120>>
Y == <<121>>
Z == <<122>>
W == <<119>>

Param(name) == [name |-> name, typ |-> "Field"]

\* ProgramArtifact / CompiledProgram: interface descriptor, bytecode, debug
\* symbols.  The bytecode is named by what the circuit computes.
Artifact(params, ret, bytecode, debug) ==
    [kind |-> "artifact",
     abi |-> [parameters |-> params, return_type |-> ret],
     bytecode |-> bytecode,
     debug |-> debug]

XY == <<Param(X), Param(Y)>>

\* #[export] fn addition(x: Field, y: Field) -> Field { x + y }
AdditionArtifact == Artifact(XY, Some("Field"), "add", TRUE)
\* fn check(x: Field, y: Field) { assert(x == y) }
CheckArtifact == Artifact(XY, None, "assert_eq", TRUE)
\* the same, exported without debug symbols
CheckStrippedArtifact == Artifact(XY, None, "assert_eq", FALSE)
\* fn nested(x, y) -> Field { add(x, y) + x }, add being a separate circuit
NestedArtifact == Artifact(XY, Some("Field"), "call_add", TRUE)
\* an artifact whose execution leaves no frame on the witness stack
NoFramesArtifact == Artifact(XY, Some("Field"), "no_frames", TRUE)
\* an artifact whose interface names more witnesses than its circuit assigns
ShortArtifact == Artifact(XY, Some("Field"), "short", TRUE)
\* a file that is no ProgramArtifact (not JSON, or another nargo version)
Garbage == [kind |-> "garbage"]

FnNames == {"addition", "check", "nested", "no_frames", "short", "broken"}

\* the content of the file at dir/name, None when there is no such file
FileAt(dir, name) ==
    IF dir = <<"tests", "export">> THEN
        CASE name = "addition.json" -> Some(AdditionArtifact)
          [] name = "check.json" -> Some(CheckArtifact)
          [] name = "nested.json" -> Some(NestedArtifact)
          [] name = "broken.json" -> Some(Garbage)
          [] OTHER -> None
    ELSE IF dir = <<"demo", "export">> THEN
        CASE name = "addition.json" -> Some(Garbage)
          [] name = "check.json" -> Some(CheckStrippedArtifact)
          [] name = "no_frames.json" -> Some(NoFramesArtifact)
          [] name = "short.json" -> Some(ShortArtifact)
          [] OTHER -> None
    ELSE None

\* ------------------------------------------------- the steps of run
\* an open that creates the file when there is none
OpenFileOrCreate(fn_path) ==
    LET file == FileAt(fn_path.dir, fn_path.name)
    IN  IF file = None THEN Ok(Garbage) ELSE Ok(file[1])

\* File::open(export_directory.join(format!("{fn_name}.json")))
OpenFile(fn_path) ==
    LET file == FileAt(fn_path.dir, fn_path.name)
    IN  IF file = None THEN Err("Io", "NotFound") ELSE Ok(file[1])

FnPath(export_directory, fn_name) ==
    [dir |-> export_directory, name |-> fn_name \o ".json"]

\* serde_json::from_reader::<_, ProgramArtifact>(reader).map_err(Error::Serde)
FromReader(content) ==
    IF content.kind = "artifact" THEN Ok(content)
    ELSE Err("Serde", "expected value")

\* `.unwrap()` applied to the parse result
ParseOutcome(parsed) ==
    IF parsed.r = "Ok" THEN parsed
    ELSE Panic("unwrap on Err: " \o parsed.kind)

RECURSIVE FirstFailing(_, _)
\* the first parameter, in name order, whose input is missing or mistyped
FirstFailing(sorted_params, input_map) ==
    IF sorted_params = <<>> THEN None
    ELSE LET p == sorted_params[1]
         IN  IF ~BTreeContains(input_map, p.key) THEN Some("MissingParam")
             ELSE IF BTreeGet(input_map, p.key).iv # "Field"
                  THEN Some("TypeMismatch")
             ELSE FirstFailing(Tail(sorted_params), input_map)

\* an encoder that fills an absent parameter with zero
AbiEncodeLenient(abi, input_map) ==
    Ok([i \in 1..Len(abi.parameters) |->
            IF BTreeContains(input_map, abi.parameters[i].name)
               /\ BTreeGet(input_map, abi.parameters[i].name).iv = "Field"
            THEN BTreeGet(input_map, abi.parameters[i].name).f
            ELSE 0])

\* Abi::encode(&input_map, None)
AbiEncode(abi, input_map) ==
    LET params == abi.parameters
        by_name == BTreeCollect([i \in 1..Len(params) |->
                                   BTreeEntry(params[i].name, params[i].typ)])
        failing == FirstFailing(by_name, input_map)
    IN  IF Len(params) < Len(input_map) THEN Err("Abi", "UnexpectedParams")
        ELSE IF failing # None THEN Err("Abi", failing[1])
        ELSE Ok([i \in 1..Len(params) |-> BTreeGet(input_map, params[i].name).f])

StackItem(index, witness) == [index |-> index, witness |-> witness]

NargoError(msg, located) ==
    [kind |-> "ExecutionError", msg |-> msg, located |-> located]

\* execute_program(&program.program, initial_witness, solver, foreign calls):
\* the callee's frame is pushed when its call returns, main's frame last
ExecuteProgram(program, w) ==
    CASE program.bytecode = "add" ->
            Ok(<<StackItem(0, <<w[1], w[2], FieldAdd(w[1], w[2])>>)>>)
      [] program.bytecode = "assert_eq" ->
            IF w[1] = w[2] THEN Ok(<<StackItem(0, <<w[1], w[2]>>)>>)
            ELSE Err("Nargo", NargoError("AssertionFailed", TRUE))
      [] program.bytecode = "call_add" ->
            Ok(<<StackItem(1, <<w[1], w[2], FieldAdd(w[1], w[2])>>),
                 StackItem(0, <<w[1], w[2],
                                FieldAdd(FieldAdd(w[1], w[2]), w[1])>>)>>)
      [] program.bytecode = "no_frames" -> Ok(<<>>)
      [] program.bytecode = "short" -> Ok(<<StackItem(0, <<w[1]>>)>>)

\* try_to_diagnose_runtime_error(&err, &program.abi, &program.debug)
TryToDiagnose(program, err) ==
    IF err.located /\ program.debug THEN Some("diagnostic") ELSE None

\* format!("{err:?}")
DebugFormat(err) == err.kind \o "(" \o err.msg \o ")"

\* a diagnosis that replaces a failure it cannot locate
DiagnoseNargoErrorReplacing(program, err) ==
    IF TryToDiagnose(program, err) = None
    THEN NargoError("Undiagnosed", FALSE)
    ELSE err

\* NoirRunner::diagnose_nargo_error: the failure it returns
DiagnoseNargoError(program, err) == err

\* WitnessStack::peek with the oldest frame taken for the newest
PeekBottom(stack) == IF stack = <<>> THEN None ELSE Some(stack[1])

\* WitnessStack::peek: the frame pushed last
Peek(stack) == IF stack = <<>> THEN None ELSE Some(stack[Len(stack)])

\* Abi::decode(&witness): (inputs, return value)
AbiDecode(abi, witness) ==
    LET n == Len(abi.parameters)
    IN  IF Len(witness) < n THEN Err("Abi", "MissingParamWitnessValue")
        ELSE IF abi.return_type = None
             THEN Ok([inputs |-> SubSeq(witness, 1, n), ret |-> None])
        ELSE IF Len(witness) < n + 1 THEN Err("Abi", "MissingParamWitnessValue")
        ELSE Ok([inputs |-> SubSeq(witness, 1, n),
                 ret |-> Some(IvField(witness[n + 1]))])

\* peek().map(witness).map(decode).transpose()?.map(|r| r.1).flatten()
RunResult(program, stack) ==
    LET top == Peek(stack)
    IN  IF top = None THEN Ok(None)
        ELSE LET decoded == AbiDecode(program.abi, top[1].witness)
             IN  IF decoded.r = "Err" THEN decoded
                 ELSE Ok(decoded.output.ret)

\* ------------------------------------------------------------- state
VARIABLES
    host,             \* converter: the value to_noir is called on
    converted,        \* converter: what to_noir returned, NoValue before
    runner,           \* the NoirRunner: program_dir and export_directory
    pc,               \* per context: where its run invocation stands
    call,             \* per context: the arguments of its latest run
    reader,           \* per context: the opened artifact file, if any
    program,          \* per context: the loaded CompiledProgram, if any
    initial_witness,  \* per context: the encoded inputs, if any
    solved,           \* per context: what execute_program returned, if anything
    outcome,          \* per context: what its latest run returned
    trace,            \* per context: the steps its latest run performed
    reported          \* per context: whether a diagnostic was reported

NoValue == [iv |-> "none"]
NoCall == [fn_name |-> "", input_map |-> <<>>]

convVars == <<host, converted>>
runVars == <<runner, pc, call, reader, program, initial_witness, solved,
             outcome, trace, reported>>
vars == <<host, converted, runner, pc, call, reader, program, initial_witness,
          solved, outcome, trace, reported>>

Contexts == 1..NumContexts

\* NoirRunner::program_dir, NoirRunner::export_directory
program_dir == runner.program_dir
export_directory == runner.export_directory

\* the state once try_new has returned Ok and before any run
RunnerInit ==
    /\ runner \in {TryNew(d).output : d \in {e \in AllDirs : TryNew(e).r = "Ok"}}
    /\ pc = [c \in Contexts |-> "idle"]
    /\ call = [c \in Contexts |-> NoCall]
    /\ reader = [c \in Contexts |-> None]
    /\ program = [c \in Contexts |-> None]
    /\ initial_witness = [c \in Contexts |-> None]
    /\ solved = [c \in Contexts |-> None]
    /\ outcome = [c \in Contexts |-> NoOutcome]
    /\ trace = [c \in Contexts |-> <<>>]
    /\ reported = [c \in Contexts |-> FALSE]

\* ------------------------------------------------------- converter spec
ConvInit ==
    /\ host \in HostValues
    /\ converted = NoValue
    /\ RunnerInit

\* one call of ToNoir::to_noir
ToNoirCall ==
    /\ converted = NoValue
    /\ converted' = HostToNoir(host)
    /\ UNCHANGED host
    /\ UNCHANGED runVars

ConvNext == ToNoirCall

ConvSpec == ConvInit /\ [][ConvNext]_vars

\* --------------------------------------------------------- NoirRunner::run
\* BTreeMap::from([...])
InputMap(pairs) ==
    BTreeCollect([i \in 1..Len(pairs) |-> BTreeEntry(pairs[i][1], pairs[i][2])])

RunInputs ==
    {InputMap(<<<<X, IvField(1)>>, <<Y, IvField(1)>>>>),
     InputMap(<<<<Y, IvField(2)>>, <<X, IvField(1)>>>>),
     InputMap(<<<<X, IvField(1)>>>>),
     InputMap(<<<<X, IvField(1)>>, <<Y, IvString(<<1>>)>>>>),
     InputMap(<<<<X, IvField(1)>>, <<Y, IvField(1)>>, <<Z, IvField(1)>>>>),
     InputMap(<<<<Y, IvField(1)>>, <<Z, IvField(1)>>>>),
     InputMap(<<<<X, IvField(1)>>, <<Z, IvField(1)>>, <<W, IvField(1)>>>>)}

\* what the contexts that run side by side call
SharedFnNames == {"addition", "check"}

SharedInputs ==
    {InputMap(<<<<X, IvField(1)>>, <<Y, IvField(1)>>>>),
     InputMap(<<<<X, IvField(1)>>, <<Y, IvField(2)>>>>),
     InputMap(<<<<X, IvField(1)>>>>)}

\* run is entered: nothing of an earlier invocation is carried over
Enter(c, fn_name, input_map) ==
    /\ pc[c] = "idle"
    /\ pc' = [pc EXCEPT ![c] = "open"]
    /\ call' = [call EXCEPT ![c] = [fn_name |-> fn_name, input_map |-> input_map]]
    /\ outcome' = [outcome EXCEPT ![c] = NoOutcome]
    /\ trace' = [trace EXCEPT ![c] = <<>>]
    /\ reported' = [reported EXCEPT ![c] = FALSE]
    /\ UNCHANGED <<runner, reader, program, initial_witness, solved>>

\* runner.run(fn_name, input_map) with a ready-made input map
Call(c, fn_name, input_map) ==
    /\ Enter(c, fn_name, input_map)
    /\ host' = HUnit
    /\ UNCHANGED converted

\* runner.run(fn_name, {x: x.to_noir(), y: y.to_noir()}) on host integers
CallWithAbi(c, fn_name, x, y) ==
    /\ Enter(c, fn_name,
             InputMap(<<<<X, HostToNoir(HI128(x))>>, <<Y, HostToNoir(HI128(y))>>>>))
    /\ host' = HSeq(<<HI128(x), HI128(y)>>)
    /\ UNCHANGED converted

\* run returns: its locals go out of scope
Return(c, result) ==
    /\ pc' = [pc EXCEPT ![c] = "idle"]
    /\ outcome' = [outcome EXCEPT ![c] = result]
    /\ reader' = [reader EXCEPT ![c] = None]
    /\ program' = [program EXCEPT ![c] = None]
    /\ initial_witness' = [initial_witness EXCEPT ![c] = None]
    /\ solved' = [solved EXCEPT ![c] = None]

Step(c, name) == trace' = [trace EXCEPT ![c] = Append(@, name)]

\* a reader slot shared by all contexts
ReaderShared(c) == IF reader[1] # None THEN reader[1][1] ELSE reader[c][1]

\* the reader run parses: the one this invocation opened
ReaderOf(c) == reader[c][1]

\* let reader = BufReader::new(File::open(fn_path).map_err(Error::Io)?);
Open(c) ==
    /\ pc[c] = "open"
    /\ Step(c, "open")
    /\ LET opened == OpenFile(FnPath(export_directory, call[c].fn_name))
       IN  IF opened.r = "Err"
           THEN /\ Return(c, opened)
                /\ UNCHANGED <<runner, call, reported, convVars>>
           ELSE /\ reader' = [reader EXCEPT ![c] = Some(opened.output)]
                /\ pc' = [pc EXCEPT ![c] = "parse"]
                /\ UNCHANGED <<runner, call, program, initial_witness, solved,
                               outcome, reported, convVars>>

\* let program = from_reader(reader).map_err(Error::Serde).unwrap().into();
Parse(c) ==
    /\ pc[c] = "parse"
    /\ Step(c, "parse")
    /\ LET parsed == ParseOutcome(FromReader(ReaderOf(c)))
       IN  IF parsed.r = "Ok"
           THEN /\ program' = [program EXCEPT ![c] = Some(parsed.output)]
                /\ reader' = [reader EXCEPT ![c] = None]
                /\ pc' = [pc EXCEPT ![c] = "encode"]
                /\ UNCHANGED <<runner, call, initial_witness, solved, outcome,
                               reported, convVars>>
           ELSE /\ Return(c, parsed)
                /\ UNCHANGED <<runner, call, reported, convVars>>

\* program.abi.encode(&input_map, None).map_err(Error::Abi)?
Encode(c) ==
    /\ pc[c] = "encode"
    /\ Step(c, "encode")
    /\ LET encoded == AbiEncode(program[c][1].abi, call[c].input_map)
       IN  IF encoded.r = "Ok"
           THEN /\ initial_witness' =
                      [initial_witness EXCEPT ![c] = Some(encoded.output)]
                /\ pc' = [pc EXCEPT ![c] = "solve"]
                /\ UNCHANGED <<runner, call, reader, program, solved, outcome,
                               reported, convVars>>
           ELSE /\ Return(c, encoded)
                /\ UNCHANGED <<runner, call, reported, convVars>>

\* let solved_witness_stack = execute_program(...);
Solve(c) ==
    /\ pc[c] = "solve"
    /\ Step(c, "solve")
    /\ LET result == ExecuteProgram(program[c][1], initial_witness[c][1])
       IN  /\ solved' = [solved EXCEPT ![c] = Some(result)]
           /\ pc' = [pc EXCEPT ![c] = IF result.r = "Ok" THEN "decode"
                                      ELSE "diagnose"]
    /\ initial_witness' = [initial_witness EXCEPT ![c] = None]
    /\ UNCHANGED <<runner, call, reader, program, outcome, reported, convVars>>

\* .map_err(|err| Self::diagnose_nargo_error(&program, err))
\* .map_err(|err| format!("{err:?}")).map_err(Error::Nargo)?
Diagnose(c) ==
    /\ pc[c] = "diagnose"
    /\ Step(c, "diagnose")
    /\ LET err == solved[c][1].detail
           diagnosed == DiagnoseNargoError(program[c][1], err)
       IN  /\ reported' =
                 [reported EXCEPT ![c] = TryToDiagnose(program[c][1], err) # None]
           /\ Return(c, Err("Nargo", DebugFormat(diagnosed)))
    /\ UNCHANGED <<runner, call, convVars>>

\* let result = solved_witness_stack.peek()...; Ok(result)
Decode(c) ==
    /\ pc[c] = "decode"
    /\ Step(c, IF Peek(solved[c][1].output) = None THEN "peek" ELSE "decode")
    /\ Return(c, RunResult(program[c][1], solved[c][1].output))
    /\ UNCHANGED <<runner, call, reported, convVars>>

Init ==
    /\ host = HUnit
    /\ converted = NoValue
    /\ RunnerInit

\* one caller: run after run, with ready-made inputs or converted integers
Next ==
    \/ \E fn_name \in FnNames, input_map \in RunInputs :
          Call(1, fn_name, input_map)
    \/ \E fn_name \in {"addition", "check"}, x, y \in I64Min..I64Max :
          CallWithAbi(1, fn_name, x, y)
    \/ Open(1)
    \/ Parse(1)
    \/ Encode(1)
    \/ Solve(1)
    \/ Diagnose(1)
    \/ Decode(1)

Spec == Init /\ [][Next]_vars

\* ------------------------- several contexts sharing the one NoirRunner
SharedNext ==
    \E c \in Contexts :
        \/ \E fn_name \in SharedFnNames, input_map \in SharedInputs :
              Call(c, fn_name, input_map)
        \/ Open(c)
        \/ Parse(c)
        \/ Encode(c)
        \/ Solve(c)
        \/ Diagnose(c)
        \/ Decode(c)

SharedSpec == Init /\ [][SharedNext]_vars

\* ------------------------------------------------ converter properties
Converted == converted # NoValue

HostIsInteger == host.ty \in {"i64", "u64"}

\* C4: an integer x with i64::MIN <= x <= u64::MAX converts to
\* Scalar(x mod p): x itself when x >= 0, through the signed or the unsigned
\* branch, and p - |x| when x < 0; a non-negative value converts to the same
\* Scalar whether it is given as a signed or as an unsigned integer.
C4_NumberEmbedding ==
    (Converted /\ HostIsInteger) =>
        /\ converted = IvField(host.x % FieldOrder)
        /\ (host.x >= 0 => converted = IvField(host.x))
        /\ (host.x < 0 => converted = IvField(FieldOrder - (-host.x)))
        /\ (host.x >= 0 /\ host.x <= I64Max =>
                /\ converted = HostToNoir(HI64(host.x))
                /\ converted = HostToNoir(HU64(host.x)))

C4_Witness ==
    /\ Converted
    /\ host = HI64(I64Min)
    /\ converted = IvField(FieldOrder + I64Min)

Reorderings(n) == {p \in [1..n -> 1..n] : \A i, j \in 1..n : p[i] = p[j] => i = j}

\* C5: an object converts to a Record with the object's key set, keys in
\* lexicographic order whatever order the source lists them in (every
\* reordering of the object converts to the same Record), each key mapped to
\* the conversion of the source value at that key.
C5_ObjectRecord ==
    (Converted /\ host.ty = "struct") =>
        LET o == ToValue(host).o
            m == converted.map
        IN  /\ converted.iv = "Struct"
            /\ Len(m) = Len(o)
            /\ BTreeKeys(m) = {o[i].key : i \in 1..Len(o)}
            /\ \A i \in 1..(Len(m) - 1) : StrLess(m[i].key, m[i + 1].key)
            /\ \A i \in 1..Len(o) : BTreeGet(m, o[i].key) = to_noir(o[i].val)
            /\ \A p \in Reorderings(Len(o)) :
                  HostToNoir(HStruct([i \in 1..Len(o) |-> host.fields[p[i]]]))
                      = converted

C5_Witness ==
    /\ Converted
    /\ host.ty = "struct"
    /\ Len(host.fields) = 3
    /\ host.fields[1].key = <<2, 1>>
    /\ host.fields[2].key = <<1>>
    /\ host.fields[3].key = <<1, 2>>
    /\ host.fields[1].val.ty = "struct"
    /\ converted.map[1].key = <<1>>
    /\ converted.map[2].key = <<1, 2>>
    /\ converted.map[3].key = <<2, 1>>

\* C6: an array of length n converts to a Sequence of length n whose i-th
\* element is the conversion of the array's i-th element; a byte array
\* converts to the Scalars of its bytes, never to a Text.
C6_ArraySequence ==
    (Converted /\ host.ty = "seq") =>
        /\ converted.iv = "Vec"
        /\ Len(converted.vec) = Len(host.items)
        /\ \A i \in 1..Len(host.items) :
              /\ converted.vec[i] = HostToNoir(host.items[i])
              /\ host.items[i].ty = "u8" => converted.vec[i] = IvField(host.items[i].x)

C6_Witness ==
    /\ Converted
    /\ host = HSeq(<<HU8(1), HU8(2), HU8(3)>>)
    /\ converted = IvVec(<<IvField(1), IvField(2), IvField(3)>>)

\* ------------------------------------------------------ run properties
Returned(c) == pc[c] = "idle" /\ outcome[c] # NoOutcome

Called(c) == call[c] # NoCall

Performed(c, step) == \E i \in 1..Len(trace[c]) : trace[c][i] = step

\* the file run(fn_name, _) opens
ArtifactFile(c) == FileAt(export_directory, call[c].fn_name \o ".json")

Loadable(c) ==
    /\ Called(c)
    /\ ArtifactFile(c) # None
    /\ ArtifactFile(c)[1].kind = "artifact"

Encodable(c) ==
    /\ Loadable(c)
    /\ AbiEncode(ArtifactFile(c)[1].abi, call[c].input_map).r = "Ok"

\* what the solver yields for the invocation's artifact and inputs
SolverResult(c) ==
    ExecuteProgram(ArtifactFile(c)[1],
                   AbiEncode(ArtifactFile(c)[1].abi, call[c].input_map).output)

\* C1: when the artifact file opens but is no compiled function artifact,
\* run returns the error value SerdeError, and performs no encode, solve or
\* decode.
C1_SerdeErrorReturned ==
    \A c \in Contexts :
        (Returned(c) /\ ArtifactFile(c) # None /\ ArtifactFile(c)[1].kind = "garbage")
            => /\ outcome[c].r = "Err"
               /\ outcome[c].kind = "Serde"
               /\ ~Performed(c, "encode")
               /\ ~Performed(c, "solve")
               /\ ~Performed(c, "decode")

\* C2: when export_directory/(fn_name + ".json") does not exist, run
\* returns IoError and never parses, encodes, solves or decodes.
C2_MissingFileIoError ==
    \A c \in Contexts :
        (Called(c) /\ ArtifactFile(c) = None)
            => /\ \A i \in 1..Len(trace[c]) : trace[c][i] = "open"
               /\ Returned(c) => (outcome[c].r = "Err" /\ outcome[c].kind = "Io")

C2_Witness ==
    /\ Returned(1)
    /\ call[1].fn_name = "no_frames"
    /\ export_directory = <<"tests", "export">>
    /\ outcome[1] = Err("Io", "NotFound")
    /\ trace[1] = <<"open">>

LacksParam(c) ==
    \E i \in 1..Len(ArtifactFile(c)[1].abi.parameters) :
        ~BTreeContains(call[c].input_map, ArtifactFile(c)[1].abi.parameters[i].name)

\* C3: with the artifact loaded and an input record that lacks a declared
\* parameter, run returns AbiError and neither solves nor decodes; in every
\* invocation an encode precedes any solve.
C3_MissingParamAbiError ==
    \A c \in Contexts :
        /\ (Loadable(c) /\ LacksParam(c))
              => /\ ~Performed(c, "solve")
                 /\ ~Performed(c, "diagnose")
                 /\ ~Performed(c, "decode")
                 /\ Returned(c) => (outcome[c].r = "Err" /\ outcome[c].kind = "Abi")
        /\ \A i \in 1..Len(trace[c]) :
              trace[c][i] = "solve" => \E j \in 1..(i - 1) : trace[c][j] = "encode"

C3_Witness ==
    /\ Returned(1)
    /\ call[1].fn_name = "addition"
    /\ export_directory = <<"tests", "export">>
    /\ call[1].input_map = InputMap(<<<<X, IvField(1)>>>>)
    /\ outcome[1] = Err("Abi", "MissingParam")
    /\ trace[1] = <<"open", "parse", "encode">>

\* the integers the latest run was called on through to_noir, if it was
HostPair == host.ty = "seq" /\ Len(host.items) = 2

\* C7: for the exported addition(x, y) = x + y and integers a, b with a, b
\* and a + b in the signed range, run("addition", {x: convert(a),
\* y: convert(b)}) returns a present output equal to convert(a + b), the
\* inputs being Scalar(a), Scalar(b) and the output Scalar(a + b).
C7_AdditionCommutes ==
    \A c \in Contexts :
        (/\ Returned(c)
         /\ HostPair
         /\ call[c].fn_name = "addition"
         /\ ArtifactFile(c) = Some(AdditionArtifact)
         /\ host.items[1].x + host.items[2].x \in I64Min..I64Max)
            => LET a == host.items[1].x
                   b == host.items[2].x
               IN  /\ call[c].input_map =
                          InputMap(<<<<X, IvField(FieldFromI128(a))>>,
                                     <<Y, IvField(FieldFromI128(b))>>>>)
                   /\ outcome[c] = Ok(Some(HostToNoir(HI128(a + b))))
                   /\ outcome[c] = Ok(Some(IvField((a + b) % FieldOrder)))

C7_Witness ==
    /\ Returned(1)
    /\ call[1].fn_name = "addition"
    /\ host = HSeq(<<HI128(-3), HI128(2)>>)
    /\ outcome[1] = Ok(Some(IvField(FieldOrder - 1)))

\* C9: when the solver fails, run returns ExecutionError carrying the
\* rendered text of the solver's own failure, with or without a diagnostic
\* report, and performs no decode.
C9_SolverFailureRendered ==
    \A c \in Contexts :
        (Encodable(c) /\ SolverResult(c).r = "Err")
            => /\ ~Performed(c, "decode")
               /\ ~Performed(c, "peek")
               /\ Returned(c) =>
                     /\ outcome[c] = Err("Nargo", DebugFormat(SolverResult(c).detail))
                     /\ Performed(c, "diagnose")
                     /\ reported[c] = ArtifactFile(c)[1].debug

C9_Witness ==
    /\ Returned(1)
    /\ call[1].fn_name = "check"
    /\ export_directory = <<"demo", "export">>
    /\ ~reported[1]
    /\ outcome[1] = Err("Nargo", "ExecutionError(AssertionFailed)")
    /\ trace[1] = <<"open", "parse", "encode", "solve", "diagnose">>

\* the frame of the entry point, function 0: the outermost call
MainFrame(stack) == CHOOSE f \in {stack[i] : i \in 1..Len(stack)} : f.index = 0

\* C10: when the solver succeeds: an empty witness stack gives success with
\* absent output and no decode; otherwise the outermost frame alone is
\* decoded, a decode failure gives AbiError, a void return gives success
\* with absent output, a non-void return gives success with that value.
C10_SolverSuccessOutcome ==
    \A c \in Contexts :
        (Returned(c) /\ Encodable(c) /\ SolverResult(c).r = "Ok")
            => LET stack == SolverResult(c).output
                   abi == ArtifactFile(c)[1].abi
               IN  IF stack = <<>>
                   THEN outcome[c] = Ok(None) /\ ~Performed(c, "decode")
                   ELSE LET decoded == AbiDecode(abi, MainFrame(stack).witness)
                        IN  /\ Performed(c, "decode")
                            /\ decoded.r = "Err" =>
                                  (outcome[c].r = "Err" /\ outcome[c].kind = "Abi")
                            /\ (decoded.r = "Ok" /\ abi.return_type = None) =>
                                  outcome[c] = Ok(None)
                            /\ (decoded.r = "Ok" /\ abi.return_type # None) =>
                                  outcome[c] = Ok(Some(IvField(
                                      MainFrame(stack).witness[Len(abi.parameters) + 1])))

C10_Witness ==
    /\ Returned(1)
    /\ call[1].fn_name = "check"
    /\ export_directory = <<"tests", "export">>
    /\ outcome[1] = Ok(None)
    /\ trace[1] = <<"open", "parse", "encode", "solve", "decode">>

\* run(fn_name, input_map) alone, start to end, on a given orchestrator
RunAlone(fresh, fn_name, input_map) ==
    LET opened == OpenFile(FnPath(fresh.export_directory, fn_name))
    IN  IF opened.r = "Err" THEN opened
        ELSE LET parsed == ParseOutcome(FromReader(opened.output))
             IN  IF parsed.r # "Ok" THEN parsed
                 ELSE LET encoded == AbiEncode(parsed.output.abi, input_map)
                      IN  IF encoded.r = "Err" THEN encoded
                          ELSE LET result == ExecuteProgram(parsed.output, encoded.output)
                               IN  IF result.r = "Err"
                                   THEN Err("Nargo", DebugFormat(
                                            DiagnoseNargoError(parsed.output, result.detail)))
                                   ELSE RunResult(parsed.output, result.output)

C8_Invocation ==
    \A c \in Contexts :
        /\ pc[c] = "idle" =>
              /\ reader[c] = None
              /\ program[c] = None
              /\ initial_witness[c] = None
              /\ solved[c] = None
        /\ Returned(c) =>
              outcome[c] = RunAlone(TryNew(program_dir).output,
                                    call[c].fn_name, call[c].input_map)

\* C8: across any interleaving of run invocations on one orchestrator,
\* program_dir() and export_directory() keep the values fixed at
\* construction, nothing loaded or solved outlives its invocation, and each
\* invocation returns what it would return run alone on a fresh orchestrator
\* for the same program_dir.
C8_InvocationsIndependent ==
    [][runner' = runner]_vars /\ []C8_Invocation

C8_Witness ==
    /\ pc[1] = "diagnose"
    /\ call[1].fn_name = "check"
    /\ Returned(2)
    /\ call[2].fn_name = "addition"
    /\ outcome[2] = Ok(Some(IvField(3)))
    /\ export_directory = <<"tests", "export">>

====
